---- MODULE Spec2Model ----
(***************************************************************************)
(* Model of EDUTRACK.py: the guided-format quiz parser                     *)
(* (parse_guided_format) followed by the QTI serializer                    *)
(* (create_qti_bytes).  A Python str is a sequence of one-character        *)
(* strings; the regular expressions of the source are operators over such  *)
(* sequences that compute what the expression matches.                     *)
(***************************************************************************)
EXTENDS Integers, Sequences, FiniteSets, TLC

\* ------------------------------------------------------------------ bounds
\* Largest number of body lines of a one-block input.
MaxBody == 4
\* Largest number of blocks of a multi-block input.
MaxBlocks == 2

\* --------------------------------------------------------- character data
UpperChars == <<"A","B","C","D","E","F","G","H","I","J","K","L","M",
                "N","O","P","Q","R","S","T","U","V","W","X","Y","Z">>
LowerChars == <<"a","b","c","d","e","f","g","h","i","j","k","l","m",
                "n","o","p","q","r","s","t","u","v","w","x","y","z">>

\* str.lower() on one character.
LowerChar(c) ==
  IF \E i \in 1..Len(UpperChars) : UpperChars[i] = c
  THEN LowerChars[CHOOSE i \in 1..Len(UpperChars) : UpperChars[i] = c]
  ELSE c

\* str.lower()
Lower(s) == [i \in 1..Len(s) |-> LowerChar(s[i])]

\* The character U+00B7 (middle dot) of the bulleted option style.
MidDot == "U+00B7"

\* Whitespace of str.strip() and of the regex class \s.
IsSpace(c) == c \in {" ", "\n", "\t"}

\* The regex class \d.
IsDigit(c) == c \in {"0","1","2","3","4","5","6","7","8","9"}

\* The regex class [A-Da-d1-9] of the shared marker-stripping rule.
IsMarkerChar(c) ==
  c \in {"A","B","C","D","a","b","c","d","1","2","3","4","5","6","7","8","9"}

\* Membership of a character in one of the character classes of the regexes.
InClass(cls, c) ==
  CASE cls = "space"  -> IsSpace(c)
    [] cls = "digit"  -> IsDigit(c)
    [] cls = "marker" -> IsMarkerChar(c)
    [] cls = "star"   -> c = "*"

\* Number of leading characters of s, from position p on, that are in cls.
RunLen(s, p, cls) ==
  IF p > Len(s) \/ ~InClass(cls, s[p]) THEN 0
  ELSE (CHOOSE j \in p..Len(s) :
          /\ \A k \in p..j : InClass(cls, s[k])
          /\ (j = Len(s) \/ ~InClass(cls, s[j+1]))) - p + 1

\* s[p:] in Python slicing, p counted from 0.
Slice(s, p) == SubSeq(s, p + 1, Len(s))

\* str.strip()
Strip(s) ==
  IF \A i \in 1..Len(s) : IsSpace(s[i]) THEN <<>>
  ELSE LET a == CHOOSE i \in 1..Len(s) :
                  ~IsSpace(s[i]) /\ \A j \in 1..(i-1) : IsSpace(s[j])
           b == CHOOSE i \in 1..Len(s) :
                  ~IsSpace(s[i]) /\ \A j \in (i+1)..Len(s) : IsSpace(s[j])
       IN SubSeq(s, a, b)

\* str.strip("*")
StripStars(s) ==
  IF \A i \in 1..Len(s) : s[i] = "*" THEN <<>>
  ELSE LET a == CHOOSE i \in 1..Len(s) :
                  s[i] # "*" /\ \A j \in 1..(i-1) : s[j] = "*"
           b == CHOOSE i \in 1..Len(s) :
                  s[i] # "*" /\ \A j \in (i+1)..Len(s) : s[j] = "*"
       IN SubSeq(s, a, b)

\* str.startswith(p)
StartsWith(s, p) == Len(s) >= Len(p) /\ SubSeq(s, 1, Len(p)) = p

\* str.split('\n'): never an empty list, "" gives [""].
RECURSIVE SplitLines(_)
SplitLines(s) ==
  IF \A i \in 1..Len(s) : s[i] # "\n" THEN <<s>>
  ELSE LET k == CHOOSE i \in 1..Len(s) :
                  s[i] = "\n" /\ \A j \in 1..(i-1) : s[j] # "\n"
       IN <<SubSeq(s, 1, k-1)>> \o SplitLines(SubSeq(s, k+1, Len(s)))

\* ------------------------------------------------------------ the regexes
\* The literal "Question" of both question-label expressions.
QuestionWord == <<"Q","u","e","s","t","i","o","n">>

\* Length of the match of  Question\s+\d+:  at position p of s (0: none).
QuestionLabelLookahead(s, p) ==
  IF \/ p + Len(QuestionWord) - 1 > Len(s)
     \/ SubSeq(s, p, p + Len(QuestionWord) - 1) # QuestionWord
  THEN 0
  ELSE LET ws == RunLen(s, p + Len(QuestionWord), "space")
           ds == RunLen(s, p + Len(QuestionWord) + ws, "digit")
           e  == p + Len(QuestionWord) + ws + ds
       IN IF ws >= 1 /\ ds >= 1 /\ e <= Len(s) /\ s[e] = ":"
          THEN e - p + 1 ELSE 0

\* SepMatchLen with the blank-line separator taken as a single newline.
SepMatchLen_SingleNewline(q_sep, s, i) ==
  IF s[i] # "\n" THEN 0
  ELSE CASE q_sep = "bold" ->
              IF i + 2 <= Len(s) /\ s[i+1] = "*" /\ s[i+2] = "*" THEN 1 ELSE 0
         [] q_sep = "question" ->
              IF QuestionLabelLookahead(s, i + 1) > 0 THEN 1 ELSE 0
         [] q_sep = "newline" -> 1

\* Length of the match of q_sep at position i of s (0: no match there).
\*   bold      \n(?=\*\*)
\*   question  \n(?=Question\s+\d+:)
\*   newline   \n\s*\n      (\s* is greedy: up to the last \n of the run)
SepMatchLen(q_sep, s, i) ==
  IF s[i] # "\n" THEN 0
  ELSE CASE q_sep = "bold" ->
              IF i + 2 <= Len(s) /\ s[i+1] = "*" /\ s[i+2] = "*" THEN 1 ELSE 0
         [] q_sep = "question" ->
              IF QuestionLabelLookahead(s, i + 1) > 0 THEN 1 ELSE 0
         [] q_sep = "newline" ->
              LET ws   == RunLen(s, i + 1, "space")
                  ends == {j \in (i+1)..(i+ws) : s[j] = "\n"}
              IN IF ends = {} THEN 0
                 ELSE (CHOOSE j \in ends : \A k \in ends : k <= j) - i + 1

\* re.split(q_sep, s): the pieces between the leftmost non-overlapping
\* matches; the scan resumes right after each match.
RECURSIVE ReSplitFrom(_, _, _)
ReSplitFrom(q_sep, s, start) ==
  LET found == {i \in start..Len(s) : SepMatchLen(q_sep, s, i) > 0}
  IN IF found = {} THEN <<SubSeq(s, start, Len(s))>>
     ELSE LET i == CHOOSE x \in found : \A y \in found : x <= y
              m == SepMatchLen(q_sep, s, i)
          IN <<SubSeq(s, start, i - 1)>> \o ReSplitFrom(q_sep, s, i + m)

re_split(q_sep, s) == ReSplitFrom(q_sep, s, 1)

\* Length of the match of opt_regex at the start of s (0: re.match fails).
\*   A)    ^[A-D]\)
\*   a)    ^[a-d]\)
\*   .A)   ^\u00b7\s[A-D]\)
\*   1)    ^\d+\)
OptMatchLen(opt_regex, s) ==
  CASE opt_regex = "A)" ->
         IF Len(s) >= 2 /\ s[1] \in {"A","B","C","D"} /\ s[2] = ")" THEN 2 ELSE 0
    [] opt_regex = "a)" ->
         IF Len(s) >= 2 /\ s[1] \in {"a","b","c","d"} /\ s[2] = ")" THEN 2 ELSE 0
    [] opt_regex = ".A)" ->
         IF /\ Len(s) >= 4
            /\ s[1] = MidDot
            /\ IsSpace(s[2])
            /\ s[3] \in {"A","B","C","D"}
            /\ s[4] = ")"
         THEN 4 ELSE 0
    [] opt_regex = "1)" ->
         LET ds == RunLen(s, 1, "digit")
         IN IF ds >= 1 /\ ds + 1 <= Len(s) /\ s[ds + 1] = ")" THEN ds + 1 ELSE 0

\* re.sub(r'^[A-Da-d1-9]+\)\s*', '', s): the shared marker-stripping rule.
StripMarker(s) ==
  LET ms == RunLen(s, 1, "marker")
  IN IF ms >= 1 /\ ms + 1 <= Len(s) /\ s[ms + 1] = ")"
     THEN Slice(s, ms + 1 + RunLen(s, ms + 2, "space"))
     ELSE s

\* re.sub(r'^\*+', '', s)
StripLeadingStars(s) == Slice(s, RunLen(s, 1, "star"))

\* re.sub(r'^\*\*(.*?)\*\*$', r'\1', s) on a line without newline.
UnwrapBold(s) ==
  IF /\ Len(s) >= 4
     /\ s[1] = "*" /\ s[2] = "*"
     /\ s[Len(s)-1] = "*" /\ s[Len(s)] = "*"
  THEN SubSeq(s, 3, Len(s) - 2)
  ELSE s

\* re.sub(r'^Question \d+:', '', s)
StripQuestionLabel(s) ==
  LET w  == QuestionWord \o <<" ">>
      ds == RunLen(s, Len(w) + 1, "digit")
      e  == Len(w) + ds + 1
  IN IF StartsWith(s, w) /\ ds >= 1 /\ e <= Len(s) /\ s[e] = ":"
     THEN Slice(s, e)
     ELSE s

\* ------------------------------------------------- format configuration
\* Keys of q_sep_map and of opt_regex_map.
QSepKeys == {"bold", "question", "newline"}
OptRegexKeys == {"A)", "a)", ".A)", "1)"}

\* Default of the answer-prefix text input.
answer_prefix == <<"A","n","s","w","e","r",":">>
\* Default of the explanation-prefix text input.
explanation_prefix == <<"E","x","p","l","a","n","a","t","i","o","n",":">>

\* ------------------------------------------------------- parsing a block
\* The cleaned question line of a block's first line.
question_text(first) ==
  Strip(StripStars(Strip(StripQuestionLabel(UnwrapBold(Strip(first))))))

\* True when the stripped line is taken by the answer-line branch's test.
HasAnswerPrefix(line) == StartsWith(Lower(line), Lower(answer_prefix))

\* True when the stripped line is taken by the explanation-line branch's test.
HasExplanationPrefix(line) == StartsWith(Lower(line), Lower(explanation_prefix))

\* One iteration of the loop over lines[1:]; acc holds options, answer and
\* explanation.  None and "" are both the empty sequence: the only use the
\* code makes of either is the truth test of the validation.
ClassifyLine(acc, raw, opt_regex) ==
  LET line       == Strip(raw)
      is_starred == line # <<>> /\ line[1] = "*"
      clean_line == Strip(StripLeadingStars(line))
  IN IF line = <<>> THEN acc
     ELSE IF OptMatchLen(opt_regex, clean_line) > 0
       THEN [acc EXCEPT !.options = Append(@, clean_line),
                        !.answer  = IF is_starred
                                    THEN Strip(StripMarker(clean_line))
                                    ELSE @]
     ELSE IF HasAnswerPrefix(line)
       THEN [acc EXCEPT !.answer =
               Strip(StripMarker(Strip(Slice(line, Len(answer_prefix)))))]
     ELSE IF HasExplanationPrefix(line)
       THEN [acc EXCEPT !.explanation =
               Strip(Slice(line, Len(explanation_prefix)))]
     ELSE IF is_starred
       THEN [acc EXCEPT !.options = Append(@, clean_line),
                        !.answer  = clean_line]
     ELSE acc

\* The loop over lines[1:].
RECURSIVE ScanLines(_, _, _, _)
ScanLines(acc, lines, k, opt_regex) ==
  IF k > Len(lines) THEN acc
  ELSE ScanLines(ClassifyLine(acc, lines[k], opt_regex), lines, k + 1, opt_regex)

\* The fields gathered from one stripped, non-empty block.
ParseBlockFields(block, opt_regex) ==
  LET lines == SplitLines(block)
      acc   == ScanLines([options |-> <<>>, answer |-> <<>>, explanation |-> <<>>],
                         lines, 2, opt_regex)
  IN [question    |-> question_text(lines[1]),
      options     |-> acc.options,
      answer      |-> acc.answer,
      explanation |-> acc.explanation]

\* ValidationError without the check of the explanation.
ValidationError_NoExplanation(q) ==
  IF Len(q.options) < 2 THEN "options"
  ELSE IF q.answer = <<>> THEN "answer"
  ELSE "none"

\* ValidationError with the answer checked before the options.
ValidationError_AnswerFirst(q) ==
  IF q.answer = <<>> THEN "answer"
  ELSE IF Len(q.options) < 2 THEN "options"
  ELSE IF q.explanation = <<>> THEN "explanation"
  ELSE "none"

\* The three checks that end a block, in the order the code makes them.
ValidationError(q) ==
  IF Len(q.options) < 2 THEN "options"
  ELSE IF q.answer = <<>> THEN "answer"
  ELSE IF q.explanation = <<>> THEN "explanation"
  ELSE "none"

\* ------------------------------------------------------------ serializer
\* clean_option of a response_label.
clean_option(option) == Strip(StripMarker(option))

\* MatchingOptionIds comparing without lower-casing.
MatchingOptionIds_CaseSensitive(q) ==
  {k \in 1..Len(q.options) :
     Strip(q.answer) = Strip(StripMarker(q.options[k]))}

\* The option ids whose cleaned, lower-cased text equals the answer's.
MatchingOptionIds(q) ==
  {k \in 1..Len(q.options) :
     Lower(Strip(q.answer)) = Lower(Strip(StripMarker(q.options[k])))}

\* correct_option_id falling back to the last option instead of the first.
correct_option_id_DefaultLast(q) ==
  IF MatchingOptionIds(q) = {} THEN Len(q.options)
  ELSE CHOOSE k \in MatchingOptionIds(q) : \A j \in MatchingOptionIds(q) : k <= j

\* next(generator, 1): the first matching id, 1 when there is none.
correct_option_id(q) ==
  IF MatchingOptionIds(q) = {} THEN 1
  ELSE CHOOSE k \in MatchingOptionIds(q) : \A j \in MatchingOptionIds(q) : k <= j

\* MakeItem numbering the item by the 0-based loop index.
MakeItem_ZeroBased(q, n) ==
  [ident    |-> <<"q", n - 1>>,
   title    |-> <<"Question ", n - 1>>,
   mattext  |-> q.question,
   labels   |-> [j \in 1..Len(q.options) |->
                   [ident |-> <<"option", j>>,
                    text  |-> clean_option(q.options[j])]],
   varequal |-> <<"option", correct_option_id(q)>>,
   feedback_correct   |-> q.explanation,
   feedback_incorrect |-> q.explanation]

\* The item node built for the record at 1-based position n.
MakeItem(q, n) ==
  [ident    |-> <<"q", n>>,
   title    |-> <<"Question ", n>>,
   mattext  |-> q.question,
   labels   |-> [j \in 1..Len(q.options) |->
                   [ident |-> <<"option", j>>,
                    text  |-> clean_option(q.options[j])]],
   varequal |-> <<"option", correct_option_id(q)>>,
   feedback_correct   |-> q.explanation,
   feedback_incorrect |-> q.explanation]

\* ---------------------------------------------------------------- inputs
\* Lines joined by "\n" (or by a longer separator) into one text.
RECURSIVE JoinWith(_, _)
JoinWith(parts, sep) ==
  IF parts = <<>> THEN <<>>
  ELSE IF Len(parts) = 1 THEN parts[1]
  ELSE parts[1] \o sep \o JoinWith(Tail(parts), sep)

\* All sequences over S of a length in lo..hi.
SeqsOf(S, lo, hi) == UNION {[1..n -> S] : n \in lo..hi}

\* The n-th option marker an author writes in the given style.
Marker(style, n) ==
  CASE style = "A)"  -> <<<<"A",")">>, <<"B",")">>, <<"C",")">>>>[n]
    [] style = "a)"  -> <<<<"a",")">>, <<"b",")">>, <<"c",")">>>>[n]
    [] style = ".A)" -> <<<<MidDot," ","A",")">>, <<MidDot," ","B",")">>,
                          <<MidDot," ","C",")">>>>[n]
    [] style = "1)"  -> <<<<"1",")">>, <<"2",")">>, <<"1","0",")">>>>[n]

PlainOption(style)    == Marker(style, 1) \o <<" ","x">>
StarredOption(style)  == <<"*">> \o Marker(style, 2) \o <<" ","y">>
StarredBare(style)    == <<"*">> \o Marker(style, 3)
StarredUnlabeled      == <<"*","y">>
AnswerLine(style)     == answer_prefix \o <<" ">> \o Marker(style, 1) \o <<" ","X">>
AnswerNoMatch         == answer_prefix \o <<" ","z">>
ExplanationLine       == explanation_prefix \o <<" ","e">>

\* The lines a block's body is drawn from.
BodyLines(style) ==
  {PlainOption(style), StarredOption(style), StarredBare(style),
   AnswerLine(style), AnswerNoMatch, ExplanationLine}

\* A question line that starts a block under the separator, and one whose
\* text is empty once it is cleaned.
QuestionLine(sep) ==
  CASE sep = "bold"     -> <<"*","*","W","*","*">>
    [] sep = "question" -> QuestionWord \o <<" ","1",":"," ","W">>
    [] sep = "newline"  -> <<"W">>
BareQuestionLine(sep) ==
  CASE sep = "bold"     -> <<"*","*","*","*">>
    [] sep = "question" -> QuestionWord \o <<" ","2",":">>
    [] sep = "newline"  -> QuestionWord \o <<" ","2",":">>

\* One-block texts: the "Question 1:" line and up to MaxBody body lines, on
\* consecutive lines.
OneBlockTexts(style) ==
  {JoinWith(<<QuestionLine("question")>> \o body, <<"\n">>) :
     body \in SeqsOf(BodyLines(style), 0, MaxBody)}

\* Blocks of the multi-block texts, each a sequence of lines.
BlockTemplates(sep, style) ==
  LET Q == QuestionLine(sep)
      P == PlainOption(style)
      S == StarredOption(style)
      E == ExplanationLine
  IN {<<Q, P, S, E>>,
      <<BareQuestionLine(sep), P, S, E>>,
      <<Q, StarredUnlabeled, P, E>>,
      <<Q, P, S, AnswerNoMatch, E>>,
      <<Q, S, P, AnswerLine(style), E>>,
      <<Q, S, E>>,
      <<Q, P, P, E>>,
      <<Q, P, S>>,
      <<Q, P, StarredBare(style)>>,
      <<Q>>}

\* What an author may put between two blocks.
Joiners == {<<"\n">>, <<"\n","\n">>, <<"\n"," ","\n">>}

MultiBlockTexts(sep, style) ==
  {JoinWith([k \in 1..Len(bs) |-> JoinWith(bs[k], <<"\n">>)], j) :
     bs \in SeqsOf(BlockTemplates(sep, style), 1, MaxBlocks), j \in Joiners}

\* Texts without any character but whitespace.
BlankTexts == {<<>>, <<" ">>, <<"\n","\n">>}

Inputs(sep, style) ==
  (IF sep = "newline" THEN OneBlockTexts(style) ELSE {})
    \cup MultiBlockTexts(sep, style) \cup BlankTexts

\* ----------------------------------------------------------------- state
VARIABLES
  text,             \* the author's text
  q_sep,            \* key of the question separator
  opt_regex,        \* key of the option-marker pattern
  pc,               \* "start", "loop", "parsed", "failed", "done"
  question_blocks,  \* result of the split
  idx,              \* number of blocks the loop has taken
  questions,        \* records appended so far
  error,            \* the ValueError raised, kind "none" while there is none
  items             \* item nodes under questestinterop

vars == <<text, q_sep, opt_regex, pc, question_blocks, idx, questions, error, items>>

NoError == [kind |-> "none", idx |-> 0, question |-> <<>>]

Init ==
  /\ q_sep \in QSepKeys
  /\ opt_regex \in OptRegexKeys
  /\ text \in Inputs(q_sep, opt_regex)
  /\ pc = "start"
  /\ question_blocks = <<>>
  /\ idx = 0
  /\ questions = <<>>
  /\ error = NoError
  /\ items = <<>>

\* question_blocks = re.split(q_sep, text.strip())
SplitBlocks ==
  /\ pc = "start"
  /\ question_blocks' = re_split(q_sep, Strip(text))
  /\ pc' = "loop"
  /\ UNCHANGED <<text, q_sep, opt_regex, idx, questions, error, items>>

\* One iteration of the loop over enumerate(question_blocks, start=1).
ParseBlock ==
  /\ pc = "loop"
  /\ idx < Len(question_blocks)
  /\ idx' = idx + 1
  /\ LET block == Strip(question_blocks[idx + 1])
     IN IF block = <<>>
        THEN UNCHANGED <<pc, questions, error>>
        ELSE LET q == ParseBlockFields(block, opt_regex)
             IN IF ValidationError(q) # "none"
                THEN /\ pc' = "failed"
                     /\ error' = [kind     |-> ValidationError(q),
                                  idx      |-> idx + 1,
                                  question |-> q.question]
                     /\ UNCHANGED questions
                ELSE /\ questions' = Append(questions, q)
                     /\ UNCHANGED <<pc, error>>
  /\ UNCHANGED <<text, q_sep, opt_regex, question_blocks, items>>

\* After the loop: raise when nothing was appended, else return questions.
ReturnQuestions ==
  /\ pc = "loop"
  /\ idx = Len(question_blocks)
  /\ IF questions = <<>>
     THEN /\ pc' = "failed"
          /\ error' = [kind |-> "novalid", idx |-> 0, question |-> <<>>]
     ELSE /\ pc' = "parsed"
          /\ UNCHANGED error
  /\ UNCHANGED <<text, q_sep, opt_regex, question_blocks, idx, questions, items>>

\* One iteration of the loop of create_qti_bytes over enumerate(questions).
CreateItem ==
  /\ pc = "parsed"
  /\ Len(items) < Len(questions)
  /\ items' = Append(items, MakeItem(questions[Len(items) + 1], Len(items) + 1))
  /\ UNCHANGED <<text, q_sep, opt_regex, pc, question_blocks, idx, questions, error>>

\* tree.write(...) once every record has its item.
WriteXml ==
  /\ pc = "parsed"
  /\ Len(items) = Len(questions)
  /\ pc' = "done"
  /\ UNCHANGED <<text, q_sep, opt_regex, question_blocks, idx, questions, error, items>>

Next == SplitBlocks \/ ParseBlock \/ ReturnQuestions \/ CreateItem \/ WriteXml

Spec == Init /\ [][Next]_vars

\* ===================================================================
\* Properties
\* ===================================================================
Returned == pc \in {"parsed", "done"}
Finished == pc \in {"parsed", "done", "failed"}

IsNonEmpty(b) == b # <<>>

\* The stripped, non-empty blocks of the split, in input order.
NonEmptyBlocks ==
  SelectSeq([i \in 1..Len(question_blocks) |-> Strip(question_blocks[i])], IsNonEmpty)

\* A block breaks one of the three conditions of a record.
BlockFails(b) ==
  LET q == ParseBlockFields(b, opt_regex)
  IN Len(q.options) < 2 \/ q.answer = <<>> \/ q.explanation = <<>>

\* The stripped, non-empty lines of a block after its question line.
BodyOf(b) ==
  LET lines == SplitLines(b)
  IN SelectSeq([k \in 1..(Len(lines) - 1) |-> Strip(lines[k + 1])], IsNonEmpty)

\* The line is an asterisk-prefixed line that matches the option pattern.
IsStarredOptionLine(line) ==
  line[1] = "*" /\ OptMatchLen(opt_regex, Strip(StripLeadingStars(line))) > 0

\* The line matches the option pattern, starred or not.
IsOptionLine(line) == OptMatchLen(opt_regex, Strip(StripLeadingStars(line))) > 0

\* The line is an answer-prefix line (and not an option line).
IsAnswerLine(line) == ~IsOptionLine(line) /\ HasAnswerPrefix(line)

\* The answer an answer-prefix line states: prefix and leading marker stripped.
AnswerOfAnswerLine(line) ==
  Strip(StripMarker(Strip(Slice(line, Len(answer_prefix)))))

\* C1: every record of a returned list has at least 2 options, a non-empty
\* answer and a non-empty explanation; and when some non-empty block breaks
\* one of the three conditions the call raises, so a returned list holds a
\* record for every non-empty block and never a subset of them.
C1_ValidatedOrNothing ==
  /\ Returned =>
       /\ \A i \in 1..Len(questions) :
            /\ Len(questions[i].options) >= 2
            /\ questions[i].answer # <<>>
            /\ questions[i].explanation # <<>>
       /\ Len(questions) = Len(NonEmptyBlocks)
  /\ (Finished /\ \E i \in 1..Len(NonEmptyBlocks) : BlockFails(NonEmptyBlocks[i]))
       => (pc = "failed" /\ items = <<>>)

\* A valid block was appended, a later block failed, and nothing is returned.
C1_Witness ==
  /\ pc = "failed"
  /\ Len(questions) = 1
  /\ error.kind = "explanation"
  /\ Len(NonEmptyBlocks) = 2

\* C2: when some block fails validation the call fails with the 1-based
\* position, among the non-empty blocks, of the first failing block; the loop
\* has gone no further than that block; and the check reported is the first
\* in the order options, answer, explanation that the block breaks.
C2_FirstFailureReported ==
  (Finished /\ \E i \in 1..Len(NonEmptyBlocks) : BlockFails(NonEmptyBlocks[i])) =>
    LET f == CHOOSE i \in 1..Len(NonEmptyBlocks) :
               /\ BlockFails(NonEmptyBlocks[i])
               /\ \A j \in 1..(i-1) : ~BlockFails(NonEmptyBlocks[j])
        q == ParseBlockFields(NonEmptyBlocks[f], opt_regex)
    IN /\ pc = "failed"
       /\ error.idx = f
       /\ idx = f
       /\ Len(questions) = f - 1
       /\ error.kind = IF Len(q.options) < 2 THEN "options"
                       ELSE IF q.answer = <<>> THEN "answer"
                       ELSE "explanation"

\* The first block fails two checks at once and a failing block follows it.
C2_Witness ==
  /\ pc = "failed"
  /\ error.idx = 1
  /\ error.kind = "answer"
  /\ Len(NonEmptyBlocks) = 2
  /\ ParseBlockFields(NonEmptyBlocks[1], opt_regex).explanation = <<>>
  /\ BlockFails(NonEmptyBlocks[2])

\* The text has two newlines with nothing but whitespace between them.
HasBlankLineGap(s) ==
  \E i, j \in 1..Len(s) :
    /\ i < j
    /\ s[i] = "\n" /\ s[j] = "\n"
    /\ \A k \in (i+1)..(j-1) : IsSpace(s[k])

\* A text that is not blank and has no blank-line gap, parsed to its end with
\* the blank-line separator.
NoGapUnderNewline ==
  /\ q_sep = "newline"
  /\ Strip(text) # <<>>
  /\ ~HasBlankLineGap(text)
  /\ Finished

\* C3 as stated: a non-empty input without blank-line gap, parsed with the
\* blank-line separator, ends in "no valid questions found" and no record.
C3_NoGapIsStructuralFailure ==
  NoGapUnderNewline => (pc = "failed" /\ error.kind = "novalid" /\ questions = <<>>)

\* C3 amended: such an input is one question block, the whole trimmed text,
\* numbered 1; the call returns exactly that block's record when the block
\* validates and fails with that block's validation error for question 1
\* otherwise, never with "no valid questions found".
C3_NoGapIsOneBlock ==
  NoGapUnderNewline =>
    /\ question_blocks = <<Strip(text)>>
    /\ error.kind # "novalid"
    /\ pc = "failed" => (error.idx = 1 /\ questions = <<>>)
    /\ Returned => Len(questions) = 1

\* The shape of the spec's example: question line, options with a starred
\* one, answer line and explanation line on consecutive lines, is returned
\* as one record.
C3_Witness ==
  /\ NoGapUnderNewline
  /\ Returned
  /\ Len(questions) = 1
  /\ Len(BodyOf(Strip(text))) = 4
  /\ \E k \in 1..4 : IsAnswerLine(BodyOf(Strip(text))[k])
  /\ \E k \in 1..4 : IsStarredOptionLine(BodyOf(Strip(text))[k])

\* C4: a record whose block holds both an answer-prefix line and an
\* asterisk-prefixed option line, in either order, has the answer of an
\* answer-prefix line, never the one inferred from the starred option.
C4_AnswerLineWins ==
  Returned =>
    \A i \in 1..Len(questions) :
      i <= Len(NonEmptyBlocks) =>
        LET body == BodyOf(NonEmptyBlocks[i])
        IN (/\ \E k \in 1..Len(body) : IsAnswerLine(body[k])
            /\ \E k \in 1..Len(body) : IsStarredOptionLine(body[k]))
           => \E k \in 1..Len(body) :
                /\ IsAnswerLine(body[k])
                /\ questions[i].answer = AnswerOfAnswerLine(body[k])

\* Option k of the record has, marker-stripped, trimmed and lower-cased, the
\* trimmed, lower-cased answer as its text.
OptionMatchesAnswer(q, k) ==
  Lower(Strip(StripMarker(q.options[k]))) = Lower(Strip(q.answer))

\* C5 as stated: for every position k whose option matches the answer, the
\* item's correct condition is option{k}.
C5_EveryMatchIsCorrect ==
  \A i \in 1..Len(items) :
    \A k \in 1..Len(questions[i].options) :
      OptionMatchesAnswer(questions[i], k) => items[i].varequal = <<"option", k>>

\* C5 amended: the item's correct condition is option{k} for the first
\* position k whose option matches the answer.
C5_FirstMatchIsCorrect ==
  \A i \in 1..Len(items) :
    \A k \in 1..Len(questions[i].options) :
      (/\ OptionMatchesAnswer(questions[i], k)
       /\ \A j \in 1..(k-1) : ~OptionMatchesAnswer(questions[i], j))
      => items[i].varequal = <<"option", k>>

\* An item whose answer differs in case from its only matching option, which
\* is not the first option.
C5_Witness ==
  \E i \in 1..Len(items) :
    \E k \in 2..Len(questions[i].options) :
      /\ OptionMatchesAnswer(questions[i], k)
      /\ \A j \in 1..(k-1) : ~OptionMatchesAnswer(questions[i], j)
      /\ Strip(StripMarker(questions[i].options[k])) # Strip(questions[i].answer)
      /\ items[i].varequal = <<"option", k>>

\* C6: the material of the response_label of an option that matched the
\* configured option pattern is the option's text after that marker.
C6_MaterialWithoutMarker ==
  \A i \in 1..Len(items) :
    \A j \in 1..Len(questions[i].options) :
      LET option == questions[i].options[j]
          m      == OptMatchLen(opt_regex, option)
      IN m > 0 => items[i].labels[j].text = Strip(Slice(option, m))

\* C7: every record of a returned list has a non-empty question text.
C7_QuestionTextNonEmpty ==
  Returned => \A i \in 1..Len(questions) : questions[i].question # <<>>

\* C8: a record whose answer matches none of its options still gets its
\* item, and the item's correct condition is option1.
C8_FallbackToFirstOption ==
  pc = "done" =>
    \A i \in 1..Len(questions) :
      (\A k \in 1..Len(questions[i].options) : ~OptionMatchesAnswer(questions[i], k))
      => (i <= Len(items) /\ items[i].varequal = <<"option", 1>>)

\* A serialized record, not the first, whose answer matches no option.
C8_Witness ==
  /\ pc = "done"
  /\ Len(items) = 2
  /\ \A k \in 1..Len(questions[2].options) : ~OptionMatchesAnswer(questions[2], k)

\* C9: n records give n items, the i-th with ident q{i} and title
\* "Question {i}"; an item has one response_label per option of its record,
\* the j-th with ident option{j} and the j-th option's text.
C9_ItemsMirrorRecords ==
  pc = "done" =>
    /\ Len(items) = Len(questions)
    /\ \A i \in 1..Len(items) :
         /\ items[i].ident = <<"q", i>>
         /\ items[i].title = <<"Question ", i>>
         /\ Len(items[i].labels) = Len(questions[i].options)
         /\ \A j \in 1..Len(items[i].labels) :
              /\ items[i].labels[j].ident = <<"option", j>>
              /\ items[i].labels[j].text = Strip(StripMarker(questions[i].options[j]))

\* Two records with different options, both serialized.
C9_Witness ==
  /\ pc = "done"
  /\ Len(items) = 2
  /\ questions[1].options # questions[2].options
  /\ Len(items[2].labels) >= 2

\* The positions of the asterisk-prefixed lines of a block's body.
StarredPositions(body) == {m \in 1..Len(body) : body[m][1] = "*"}

\* C10: a block without answer-prefix line whose only asterisk-prefixed line
\* matches the option pattern, is the k-th option, and repeats no earlier
\* option's normalized text, gives a record only if the starred option has
\* text after its marker, and its item's correct condition is option{k}.
C10_StarredOptionIsCorrect ==
  pc = "done" =>
    \A i \in 1..Len(questions) :
      i <= Len(NonEmptyBlocks) =>
        LET body == BodyOf(NonEmptyBlocks[i])
        IN (/\ \A n \in 1..Len(body) : ~HasAnswerPrefix(body[n])
            /\ Cardinality(StarredPositions(body)) = 1
            /\ \A m \in StarredPositions(body) : IsStarredOptionLine(body[m]))
           => LET m     == CHOOSE x \in StarredPositions(body) : TRUE
                  clean == Strip(StripLeadingStars(body[m]))
                  k     == Cardinality({n \in 1..m : IsOptionLine(body[n])})
              IN (\A j \in 1..(k-1) : ~OptionMatchesAnswer(
                      [options |-> questions[i].options, answer |-> StripMarker(clean)], j))
                 => /\ Strip(Slice(clean, OptMatchLen(opt_regex, clean))) # <<>>
                    /\ items[i].varequal = <<"option", k>>

====
